---- MODULE Spec2Model ----
(***************************************************************************)
(* ArcadeShapeAnimation.py: falling snow, spoked wheels and bouncing balls *)
(* advanced once per tick by GamePlay.on_update and painted once per frame *)
(* by GamePlay.on_draw.                                                    *)
(*                                                                         *)
(* Numbers.  Python computes positions, deltas and sizes as ints and as    *)
(* binary64 floats, and setup's deltas (0.6, 0.7) are not binary           *)
(* fractions, so the rounding of every sum decides on which tick a snow    *)
(* drop wraps.  A number is therefore a record [t, e] standing for the     *)
(* value                                                                   *)
(*            t / 100  +  e * Unit,     Unit = 2^-56 / 100,                *)
(* t being the value in exact hundredths of a pixel (the finest decimal    *)
(* the program writes is 0.15) and e the distance of the float from that   *)
(* decimal.  Every float the program can hold here is a multiple of 2^-56  *)
(* (the spacing of floats at 0.1), hence has such a record.  Sums and      *)
(* products are formed exactly and then rounded to the nearest float, ties *)
(* to even, by Round.  Angles are whole degrees (ints in every call of the *)
(* program) and plain integers here.                                       *)
(*                                                                         *)
(* Points of a wheel's batch are kept in polar form: [dist, factor, step,  *)
(* of] is factor/10 times the point (dist*cos(a), dist*sin(a)) with        *)
(* a = step * (2*pi / of); the trigonometry itself is not computed.        *)
(***************************************************************************)
EXTENDS Integers, Sequences, FiniteSets

\* ---------------------------------------------------------------- bounds
MaxTicks == 805
MaxUndrawn == 2
MaxSnowDrops == 2
MaxSpokes == 4
\* how many of the recorded draws of setup's random calls are tried
MaxDraws == 4

\* ------------------------------------------------------------- constants
\* the divisor of setup's randrange(5, 8) / 10
Scale == 10
\* hundredths in a pixel: the t of a number counts them
Grain == 100
SCREEN_WIDTH == 800
SCREEN_HEIGHT == 560
WRAP_MARGIN == 10
DEFAULT_SPOKES == 3
\* binades 2^-4 .. 2^11 are rounded; below 2^-4 every multiple of 2^-56 is a
\* float, and no value of the model reaches 2^12
MaxBinade == 15
\* the literal 0.15 in hundredths, and the distance of the float 0.15 from
\* it in units of 2^-56 / 100
CENTER_DISC_HUNDREDTHS == 15
CENTER_DISC_ERR == -40

\* ------------------------------------------------------- float arithmetic
Num(t, e) == [t |-> t, e |-> e]

\* 2^n, 0 <= n <= 17
Pow2(n) == <<1, 2, 4, 8, 16, 32, 64, 128, 256, 512, 1024, 2048, 4096, 8192,
             16384, 32768, 65536, 131072>>[n + 1]

\* 2^m modulo 100, m >= 2
Pow2Mod100(m) ==
    <<4, 8, 16, 32, 64, 28, 56, 12, 24, 48,
      96, 92, 84, 68, 36, 72, 44, 88, 76, 52>>[((m - 2) % 20) + 1]

\* the sign of t * 2^56 + e (|e| < 2^56)
SignOf(t, e) ==
    IF t > 0 THEN 1 ELSE IF t < 0 THEN -1
    ELSE IF e > 0 THEN 1 ELSE IF e < 0 THEN -1 ELSE 0

\* t/100 + e*Unit >= 2^(j-4), for t/100 + e*Unit > 0
AtLeastBinade(t, e, j) ==
    SignOf(16 * t - Grain * Pow2(j), e) >= 0

\* the binade of a positive value: the largest j with value >= 2^(j-4), or
\* -1 when the value is below 2^-4
RECURSIVE BinadeFrom(_, _, _)
BinadeFrom(t, e, j) ==
    IF j < 0 THEN -1
    ELSE IF AtLeastBinade(t, e, j) THEN j ELSE BinadeFrom(t, e, j - 1)

\* (t * 2^56 + e) modulo the float spacing 100 * 2^j of binade j, in units:
\* t * 2^56 mod (100 * 2^j) is 2^j * ((t mod 100) * (2^(56-j) mod 100) mod 100)
Remainder(t, e, j) ==
    (Pow2(j) * (((t % Grain) * Pow2Mod100(56 - j)) % Grain) + e)
        % (Grain * Pow2(j))

\* the neighbouring float of t/100 + e*Unit that is nearest to it, the value
\* being r units above a float in a binade of spacing g; a tie goes to the
\* float with the even significand, the one that is a multiple of 2 * g
Nearest(t, e, g, r, r2) ==
    IF r = 0 THEN Num(t, e)
    ELSE IF 2 * r < g THEN Num(t, e - r)
    ELSE IF 2 * r > g THEN Num(t, e - r + g)
    ELSE IF r2 = r THEN Num(t, e - r)
    ELSE Num(t, e - r + g)

\* round a positive exact value of binade j; below 2^-4 (j < 0) every
\* multiple of 2^-56 is a float
RoundInBinade(t, e, j) ==
    IF j < 0 THEN Num(t, e)
    ELSE Nearest(t, e, Grain * Pow2(j), Remainder(t, e, j), Remainder(t, e, j + 1))

\* round a positive exact value to the nearest float, ties to even
RoundPositive(t, e) == RoundInBinade(t, e, BinadeFrom(t, e, MaxBinade))

\* s * m for the sign s
Signed(s, m) == Num(s * m.t, s * m.e)

\* round the magnitude of a value of sign s, and give the sign back
RoundSigned(s, t, e) == Signed(s, RoundPositive(s * t, s * e))

\* the float nearest to the exact value t/100 + e*Unit; a multiple of a
\* quarter pixel (every int is one) is a float already
Round(t, e) ==
    IF e = 0 /\ t % 25 = 0 THEN Num(t, 0) ELSE RoundSigned(SignOf(t, e), t, e)

\* the float nearest to tenths/10: a literal, or the quotient n / 10
Float(tenths) == Round(tenths * (Grain \div Scale), 0)

\* the int p, in pixels
Px(p) == Num(p * Grain, 0)

Zero == Num(0, 0)

\* a + b, a - b, -a, a < b, a > b as Python evaluates them
Add(a, b) == Round(a.t + b.t, a.e + b.e)
Sub(a, b) == Round(a.t - b.t, a.e - b.e)
Neg(a) == Num(-a.t, -a.e)
Lt(a, b) == SignOf(a.t - b.t, a.e - b.e) < 0
Gt(a, b) == Lt(b, a)

\* c * p for the float c nearest to hundredths/100, err units away from it,
\* and the int p
Times(hundredths, err, p) == Round(hundredths * p, err * p)

\* tenths/10 * p for the int p
TimesTenths(tenths, p) == Times(tenths * (Grain \div Scale), Float(tenths).e, p)

\* a / 2 for the int a, pixels
Half(p) == Round((p * Grain) \div 2, 0)

RED == <<255, 0, 0>>
GREEN == <<0, 255, 0>>
BLUE == <<0, 0, 255>>
BLACK == <<0, 0, 0>>
WHITE == <<255, 255, 255, 255>>

\* the local origin (0, 0) of a batch
Origin == [dist |-> 0, factor |-> 10, step |-> 0, of |-> 1]

\* (radius*cos(n*stepAngle), radius*sin(n*stepAngle)), stepAngle = 2*pi/spokes
Polar(radius, n, spokes) == [dist |-> radius, factor |-> 10, step |-> n, of |-> spokes]

\* (1.2 * end_x, 1.2 * end_y)
OuterDiscCenter(end) == [end EXCEPT !.factor = 12]

\* arcade.ShapeElementList(): an empty batch with the identity transform
ShapeElementList == [center_x |-> Zero, center_y |-> Zero, angle |-> 0, shapes |-> <<>>]

\* ShapeElementList.append
BatchAppend(batch, shape) == [batch EXCEPT !.shapes = Append(@, shape)]

create_ellipse_filled(center, width, height, color, tilt) ==
    [shape |-> "ellipse", filled |-> TRUE, center |-> center,
     width |-> width, height |-> height, color |-> color, tilt |-> tilt]

\* arcade.create_ellipse: filled unless told otherwise, no tilt
create_ellipse(center, width, height, color) ==
    [shape |-> "ellipse", filled |-> TRUE, center |-> center,
     width |-> width, height |-> height, color |-> color, tilt |-> 0]

create_line(from, to, color, line_width) ==
    [shape |-> "line", from |-> from, to |-> to, color |-> color,
     line_width |-> line_width]

\* ------------------------------------------------------------ class Shape
\* Shape.__init__; id is the object's identity (0 until the scene appends it)
ShapeInit(kind, x, y, width, height, angle, delta_x, delta_y, delta_angle, color) ==
    [kind |-> kind, id |-> 0,
     x |-> x, y |-> y, width |-> width, height |-> height, angle |-> angle,
     delta_x |-> delta_x, delta_y |-> delta_y, delta_angle |-> delta_angle,
     color |-> color, count |-> 0, shape_list |-> "None"]

\* Shape.__init__ with the defaults the subclasses leave in place
ShapeDefault(kind, delta_x, delta_y, delta_angle) ==
    ShapeInit(kind, Px(0), Px(0), Px(20), Px(20), 0, delta_x, delta_y, delta_angle, RED)

\* self.x += self.delta_x; self.y += self.delta_y; self.angle += self.delta_angle
Advance(e) ==
    [e EXCEPT !.x = Add(@, e.delta_x), !.y = Add(@, e.delta_y),
              !.angle = @ + e.delta_angle]

\* mutant: the bounce tests the position only (level-triggered)
ShapeMoveLevel(e) ==
    LET e1 == Advance(e)
        e2 == IF Lt(e1.x, Zero) THEN [e1 EXCEPT !.delta_x = Neg(@)] ELSE e1
        e3 == IF Lt(e2.y, Zero) THEN [e2 EXCEPT !.delta_y = Neg(@)] ELSE e2
        e4 == IF Gt(e3.x, Px(SCREEN_WIDTH)) THEN [e3 EXCEPT !.delta_x = Neg(@)] ELSE e3
        e5 == IF Gt(e4.y, Px(SCREEN_HEIGHT)) THEN [e4 EXCEPT !.delta_y = Neg(@)] ELSE e4
    IN e5

\* mutant: the far-edge tests use >= instead of >
ShapeMoveEarly(e) ==
    LET e1 == Advance(e)
        e2 == IF Lt(e1.x, Zero) /\ Lt(e1.delta_x, Zero)
              THEN [e1 EXCEPT !.delta_x = Neg(@)] ELSE e1
        e3 == IF Lt(e2.y, Zero) /\ Lt(e2.delta_y, Zero)
              THEN [e2 EXCEPT !.delta_y = Neg(@)] ELSE e2
        e4 == IF ~Lt(e3.x, Px(SCREEN_WIDTH)) /\ Gt(e3.delta_x, Zero)
              THEN [e3 EXCEPT !.delta_x = Neg(@)] ELSE e3
        e5 == IF ~Lt(e4.y, Px(SCREEN_HEIGHT)) /\ Gt(e4.delta_y, Zero)
              THEN [e4 EXCEPT !.delta_y = Neg(@)] ELSE e4
    IN e5

\* mutant: the near-edge tests have the direction test the wrong way round
ShapeMoveNoNearBounce(e) ==
    LET e1 == Advance(e)
        e2 == IF Lt(e1.x, Zero) /\ Gt(e1.delta_x, Zero)
              THEN [e1 EXCEPT !.delta_x = Neg(@)] ELSE e1
        e3 == IF Lt(e2.y, Zero) /\ Gt(e2.delta_y, Zero)
              THEN [e2 EXCEPT !.delta_y = Neg(@)] ELSE e2
        e4 == IF Gt(e3.x, Px(SCREEN_WIDTH)) /\ Gt(e3.delta_x, Zero)
              THEN [e3 EXCEPT !.delta_x = Neg(@)] ELSE e3
        e5 == IF Gt(e4.y, Px(SCREEN_HEIGHT)) /\ Gt(e4.delta_y, Zero)
              THEN [e4 EXCEPT !.delta_y = Neg(@)] ELSE e4
    IN e5

\* Shape.move: advance, then the four bounce tests in source order
ShapeMove(e) ==
    LET e1 == Advance(e)
        e2 == IF Lt(e1.x, Zero) /\ Lt(e1.delta_x, Zero)
              THEN [e1 EXCEPT !.delta_x = Neg(@)] ELSE e1
        e3 == IF Lt(e2.y, Zero) /\ Lt(e2.delta_y, Zero)
              THEN [e2 EXCEPT !.delta_y = Neg(@)] ELSE e2
        e4 == IF Gt(e3.x, Px(SCREEN_WIDTH)) /\ Gt(e3.delta_x, Zero)
              THEN [e3 EXCEPT !.delta_x = Neg(@)] ELSE e3
        e5 == IF Gt(e4.y, Px(SCREEN_HEIGHT)) /\ Gt(e4.delta_y, Zero)
              THEN [e4 EXCEPT !.delta_y = Neg(@)] ELSE e4
    IN e5

\* Shape.draw: push position and angle into the batch, then render it
ShapeDraw(e) ==
    [e EXCEPT !.shape_list.center_x = e.x,
              !.shape_list.center_y = e.y,
              !.shape_list.angle = e.angle]

\* --------------------------------------------------------- class SnowDrop
SnowDrop(x, y, width, height, angle, delta_x, delta_y, delta_angle, color) ==
    LET s == ShapeInit("SnowDrop", x, y, width, height, angle,
                       delta_x, delta_y, delta_angle, color)
    IN [s EXCEPT !.shape_list =
           BatchAppend(ShapeElementList,
               create_ellipse_filled(Origin, s.width, s.height, s.color, s.angle))]

\* the lateral step and the oscillation counter with its threshold
SnowDropSway(e, threshold) ==
    LET e1 == [e EXCEPT !.x = Add(@, e.delta_x), !.count = @ + 1]
    IN IF e1.count > threshold
       THEN [e1 EXCEPT !.delta_x = Neg(@), !.count = 0] ELSE e1

\* mutant: the oscillation threshold is count > 3
SnowDropMoveEvery4(e) ==
    LET e2 == SnowDropSway(e, 3)
        e3 == [e2 EXCEPT !.y = Sub(@, e2.delta_y)]
    IN IF Lt(e3.y, Zero) THEN [e3 EXCEPT !.y = Px(SCREEN_HEIGHT + WRAP_MARGIN)] ELSE e3

\* mutant: the wrap puts the particle on the top edge, without the margin
SnowDropMoveNoMargin(e) ==
    LET e2 == SnowDropSway(e, 4)
        e3 == [e2 EXCEPT !.y = Sub(@, e2.delta_y)]
    IN IF Lt(e3.y, Zero) THEN [e3 EXCEPT !.y = Px(SCREEN_HEIGHT)] ELSE e3

\* mutant: the wrap test is y <= 0
SnowDropMoveWrapAtZero(e) ==
    LET e2 == SnowDropSway(e, 4)
        e3 == [e2 EXCEPT !.y = Sub(@, e2.delta_y)]
    IN IF ~Gt(e3.y, Zero) THEN [e3 EXCEPT !.y = Px(SCREEN_HEIGHT + WRAP_MARGIN)] ELSE e3

\* SnowDrop.move: lateral step, oscillation counter, fall, wrap
SnowDropMove(e) ==
    LET e2 == SnowDropSway(e, 4)
        e3 == [e2 EXCEPT !.y = Sub(@, e2.delta_y)]
    IN IF Lt(e3.y, Zero) THEN [e3 EXCEPT !.y = Px(SCREEN_HEIGHT + WRAP_MARGIN)] ELSE e3

\* ------------------------------------------------------------ class Wheel
\* self.colors
WheelColors == <<RED, GREEN, BLUE>>

\* mutant: the palette index is n % 2
SpokeColorMod2(n) == WheelColors[(n % 2) + 1]

\* color = self.colors[n % colorCount]
SpokeColor(n) == WheelColors[(n % Len(WheelColors)) + 1]

\* for n in range(spokes): one line, then its outer disc; radius is an int
RECURSIVE SpokeLoop(_, _, _, _)
SpokeLoop(n, spokes, radius, batch) ==
    IF n >= spokes THEN batch
    ELSE LET color == SpokeColor(n)
             end == Polar(radius, n, spokes)
             sp == create_line(Origin, end, color, TimesTenths(1, radius))
             outerDiscSize == TimesTenths(3, radius)
             ep == create_ellipse(OuterDiscCenter(end),
                                  outerDiscSize, outerDiscSize, color)
         IN SpokeLoop(n + 1, spokes, radius,
                      BatchAppend(BatchAppend(batch, sp), ep))

\* what a constructor call yields when the division by spokes raises
ZeroDivisionError == [kind |-> "ZeroDivisionError"]

\* Wheel.__init__; the angle argument is not handed to Shape.__init__
Wheel(start_x, start_y, radius, spokes, angle, dx, dy, dAngle) ==
    IF spokes = 0 THEN ZeroDivisionError
    ELSE LET s == ShapeDefault("Wheel", dx, dy, dAngle)
             centerDiscSize == Times(CENTER_DISC_HUNDREDTHS, CENTER_DISC_ERR, radius)
             ep == create_ellipse(Origin, centerDiscSize, centerDiscSize, BLACK)
             batch == BatchAppend(SpokeLoop(0, spokes, radius, ShapeElementList), ep)
         IN [s EXCEPT !.shape_list = batch, !.x = start_x, !.y = start_y]

\* ----------------------------------------------------- class BouncingBall
BouncingBall(start_x, start_y, width, height, dx, dy, color) ==
    LET s == ShapeDefault("BouncingBall", dx, dy, 0)
        ep == create_ellipse_filled(Origin, width, height, color, 0)
    IN [s EXCEPT !.shape_list = BatchAppend(ShapeElementList, ep),
                 !.x = start_x, !.y = start_y]

\* method dispatch of shape.move()
Move(e) == IF e.kind = "SnowDrop" THEN SnowDropMove(e) ELSE ShapeMove(e)

\* method dispatch of shape.draw(): no subclass overrides it
Draw(e) == ShapeDraw(e)

\* ----------------------------------------------------------------- state
VARIABLES phase, numSnowDrops, request, shapeList, tick, undrawn,
          lastCallback, calls
\* phase        "constructed" (GamePlay.__init__ done), "new" (a constructor
\*              call is pending), "running", or "error" (the call raised)
\* numSnowDrops GamePlay.numSnowDrops
\* request      the arguments of the pending or finished constructor call
\* shapeList    GamePlay.shapeList, the scene's entities in list order
\* tick         number of on_update calls so far
\* undrawn      number of on_update calls since the last on_draw
\* lastCallback the callback that ran last
\* calls        ids of the entities whose move()/draw() that callback
\*              invoked, in call order
vars == <<phase, numSnowDrops, request, shapeList, tick, undrawn,
          lastCallback, calls>>

NoRequest == [kind |-> "none"]

\* self.cx = self.swd/2, self.cy = self.sht/2
cx == Half(SCREEN_WIDTH)
cy == Half(SCREEN_HEIGHT)

\* self.shapeList.append(shape): the entity takes the next list position
ListAppend(list, shape) == Append(list, [shape EXCEPT !.id = Len(list) + 1])

\* random.randrange(start, stop): the values a call can return
randrange(start, stop) == start..(stop - 1)

\* what the six random.randrange calls of one loop pass can return
DrawRange ==
    [x : randrange(0, SCREEN_WIDTH), y : randrange(0, SCREEN_HEIGHT),
     width : randrange(2, 6), height : randrange(2, 6),
     dx : randrange(5, 8), dy : randrange(5, 8)]

Draw6(x, y, width, height, dx, dy) ==
    [x |-> x, y |-> y, width |-> width, height |-> height, dx |-> dx, dy |-> dy]

\* draws of one loop pass, recorded from runs of setup: the two passes
\* under random.seed(0); two draws at the edges of the ranges, with which
\* the float sum y - dy goes below 0 one tick before the decimal sum does
\* (y = 3, dy = 0.6 and y = 7, dy = 0.7); then the two passes under
\* random.seed(1) and under random.seed(2)
DrawList ==
    << Draw6(394, 430, 2, 4, 7, 6), Draw6(414, 310, 5, 4, 7, 5),
       Draw6(0, 3, 4, 2, 6, 6),     Draw6(799, 7, 5, 5, 5, 7),
       Draw6(137, 64, 4, 2, 6, 6),  Draw6(483, 388, 3, 2, 6, 5),
       Draw6(57, 93, 2, 4, 5, 7),   Draw6(685, 315, 4, 3, 7, 5) >>

\* the draws tried for a loop pass: the range the code draws from is far
\* too large to enumerate (800 * 560 * 4 * 4 * 3 * 3 per pass), so a pass
\* draws one of the first MaxDraws recorded draws
RandomSamples ==
    { DrawList[i] : i \in 1..MaxDraws } \cap DrawRange

\* the snow drop of loop pass n, from that pass's random values r
SetupSnowDrop(n, r) ==
    LET dx0 == Float(r.dx)
        dy == Float(r.dy)
        dx == IF n % 2 > 0 THEN Neg(dx0) ELSE dx0
        width == IF n % 10 = 0 THEN Px(2 * r.width) ELSE Px(r.width)
        height == IF n % 10 = 0 THEN Px(2 * r.height) ELSE Px(r.height)
    IN SnowDrop(Px(r.x), Px(r.y), width, height, 0, dx, dy, 0, WHITE)

\* the four wheels and two balls that follow the snow drop in the loop body
SetupWheelsAndBalls(list) ==
    LET l1 == ListAppend(list, Wheel(Px(0), cy, 150, DEFAULT_SPOKES, 0,
                                     Px(1), Px(0), 1))
        l2 == ListAppend(l1, Wheel(Px(SCREEN_WIDTH), cy, 150, DEFAULT_SPOKES, 0,
                                   Px(-1), Px(0), -1))
        l3 == ListAppend(l2, Wheel(cx, Px(SCREEN_HEIGHT), 80, DEFAULT_SPOKES, 0,
                                   Px(0), Px(-2), 4))
        l4 == ListAppend(l3, Wheel(cx, Px(0), 80, DEFAULT_SPOKES, 0,
                                   Px(0), Px(2), -4))
        l5 == ListAppend(l4, BouncingBall(Px(0), Px(0), Px(80), Px(100),
                                          Px(4), Px(4), RED))
        l6 == ListAppend(l5, BouncingBall(Px(SCREEN_WIDTH), Px(0), Px(80), Px(100),
                                          Px(-4), Px(4), GREEN))
    IN l6

\* for n in range(self.numSnowDrops): the whole loop body, wheels and balls
\* included, runs on every pass
RECURSIVE SetupLoop(_, _, _, _)
SetupLoop(n, count, rs, list) ==
    IF n >= count THEN list
    ELSE SetupLoop(n + 1, count, rs,
             SetupWheelsAndBalls(ListAppend(list, SetupSnowDrop(n, rs[n + 1]))))

\* mutant: the loop visits the list back to front
IterOrderReversed(n) == [k \in 1..n |-> n + 1 - k]

\* for shape in self.shapeList: the positions visited, in visiting order
IterOrder(n) == [k \in 1..n |-> k]

\* the body of on_update's loop run over the list
RECURSIVE UpdateLoop(_, _, _, _)
UpdateLoop(list, order, k, log) ==
    IF k > Len(order) THEN [list |-> list, log |-> log]
    ELSE LET i == order[k]
         IN UpdateLoop([list EXCEPT ![i] = Move(list[i])], order, k + 1,
                       Append(log, list[i].id))

\* the body of on_draw's loop run over the list
RECURSIVE DrawLoop(_, _, _, _)
DrawLoop(list, order, k, log) ==
    IF k > Len(order) THEN [list |-> list, log |-> log]
    ELSE LET i == order[k]
         IN DrawLoop([list EXCEPT ![i] = Draw(list[i])], order, k + 1,
                     Append(log, list[i].id))

\* --------------------------------------------------------------- actions
\* GamePlay.setup
Setup ==
    /\ phase = "constructed"
    /\ \E rs \in [1..numSnowDrops -> RandomSamples] :
          shapeList' = SetupLoop(0, numSnowDrops, rs, <<>>)
    /\ phase' = "running"
    /\ lastCallback' = "setup"
    /\ calls' = <<>>
    /\ UNCHANGED <<numSnowDrops, request, tick, undrawn>>

\* GamePlay.on_update; it may run again before the next on_draw, here up to
\* MaxUndrawn times in a row
OnUpdate ==
    /\ phase = "running"
    /\ tick < MaxTicks
    /\ undrawn < MaxUndrawn
    /\ LET r == UpdateLoop(shapeList, IterOrder(Len(shapeList)), 1, <<>>)
       IN /\ shapeList' = r.list
          /\ calls' = r.log
    /\ tick' = tick + 1
    /\ undrawn' = undrawn + 1
    /\ lastCallback' = "on_update"
    /\ UNCHANGED <<phase, numSnowDrops, request>>

\* GamePlay.on_draw
OnDraw ==
    /\ phase = "running"
    /\ LET r == DrawLoop(shapeList, IterOrder(Len(shapeList)), 1, <<>>)
       IN /\ shapeList' = r.list
          /\ calls' = r.log
    /\ undrawn' = 0
    /\ lastCallback' = "on_draw"
    /\ UNCHANGED <<phase, numSnowDrops, request, tick>>

\* GamePlay.__init__; the shipped count is 250, here any count up to the bound
Init ==
    /\ phase = "constructed"
    /\ numSnowDrops \in 0..MaxSnowDrops
    /\ request = NoRequest
    /\ shapeList = <<>>
    /\ tick = 0
    /\ undrawn = 0
    /\ lastCallback = "__init__"
    /\ calls = <<>>

Next == Setup \/ OnUpdate \/ OnDraw

\* main(): construct, setup, then the frame clock drives update and draw
Spec == Init /\ [][Next]_vars

\* ------------------------------------------- one entity, any arguments
\* Constructor calls with arguments drawn from small sets, for the
\* properties of the classes that hold for arguments the default scene
\* never uses.  A request gives positions, sizes and deltas in tenths of a
\* pixel (the argument is the float nearest to that decimal) and a wheel's
\* radius in whole pixels; 75 is a radius whose centre disc (11.25) is not a
\* whole number of tenths.  The entity built is the only member of the
\* scene's list.

\* snow drops as setup can build them
SetupSnowDropRequests ==
    { [kind |-> "SnowDrop", x |-> 0, y |-> 10 * y, width |-> 30, height |-> 30,
       angle |-> 0, delta_x |-> dx, delta_y |-> dy, delta_angle |-> 0,
       color |-> WHITE] :
      y \in {0, 3, 7, 64, 93, 430, 559}, dx \in {-6, 7}, dy \in {5, 6, 7} }

SnowDropRequests ==
    { [kind |-> "SnowDrop", x |-> 0, y |-> y, width |-> 30, height |-> 30,
       angle |-> 0, delta_x |-> dx, delta_y |-> dy, delta_angle |-> 0,
       color |-> WHITE] :
      y \in {-10, 0, 10, 5600}, dx \in {-5, 0, 20}, dy \in {0, 5, 20} }
    \cup SetupSnowDropRequests

DefaultBallRequests ==
    { [kind |-> "BouncingBall", start_x |-> 0, start_y |-> 0,
       width |-> 800, height |-> 1000, dx |-> 40, dy |-> 40,
       color |-> RED],
      [kind |-> "BouncingBall", start_x |-> 8000, start_y |-> 0,
       width |-> 800, height |-> 1000, dx |-> -40, dy |-> 40,
       color |-> GREEN] }

BouncingBallRequests ==
    { [kind |-> "BouncingBall", start_x |-> x, start_y |-> y,
       width |-> 800, height |-> 1000, dx |-> dx, dy |-> dy,
       color |-> RED] :
      x \in {-30, 0, 8000}, y \in {-10, 0, 5600},
      dx \in {-20, 0, 3000}, dy \in {-40, 0, 7} }
    \cup DefaultBallRequests

WheelRequests ==
    { [kind |-> "Wheel", start_x |-> m.x, start_y |-> m.y, radius |-> radius,
       spokes |-> spokes, angle |-> angle, dx |-> m.dx, dy |-> m.dy,
       dAngle |-> m.dAngle] :
      m \in { [x |-> 0, y |-> 2800, dx |-> 10, dy |-> 0, dAngle |-> 1],
              [x |-> 4000, y |-> 5600, dx |-> 0, dy |-> -20, dAngle |-> 4] },
      radius \in {75, 80, 150}, spokes \in -1..MaxSpokes, angle \in {0, 45} }

Requests == SnowDropRequests \cup BouncingBallRequests \cup WheelRequests

\* the constructor call a request stands for
New(r) ==
    IF r.kind = "SnowDrop"
    THEN SnowDrop(Float(r.x), Float(r.y), Float(r.width), Float(r.height), r.angle,
                  Float(r.delta_x), Float(r.delta_y), r.delta_angle, r.color)
    ELSE IF r.kind = "Wheel"
    THEN Wheel(Float(r.start_x), Float(r.start_y), r.radius, r.spokes, r.angle,
               Float(r.dx), Float(r.dy), r.dAngle)
    ELSE BouncingBall(Float(r.start_x), Float(r.start_y), Float(r.width),
                      Float(r.height), Float(r.dx), Float(r.dy), r.color)

\* run the requested constructor; the object joins the list unless the
\* constructor raised
Construct ==
    /\ phase = "new"
    /\ LET obj == New(request)
       IN IF obj.kind = "ZeroDivisionError"
          THEN /\ phase' = "error"
               /\ shapeList' = shapeList
          ELSE /\ phase' = "running"
               /\ shapeList' = ListAppend(shapeList, obj)
    /\ lastCallback' = "constructor"
    /\ calls' = <<>>
    /\ UNCHANGED <<numSnowDrops, request, tick, undrawn>>

InitEntity ==
    /\ phase = "new"
    /\ numSnowDrops = 0
    /\ request \in Requests
    /\ shapeList = <<>>
    /\ tick = 0
    /\ undrawn = 0
    /\ lastCallback = "none"
    /\ calls = <<>>

NextEntity == Construct \/ OnUpdate \/ OnDraw

SpecEntity == InitEntity /\ [][NextEntity]_vars

\* ------------------------------------------------------------ properties
IsTick == tick' = tick + 1

Generic(e) == e.kind # "SnowDrop"

Le(a, b) == ~Lt(b, a)

Abs(a) == IF Lt(a, Zero) THEN Neg(a) ELSE a

\* the start position and deltas a request hands to the constructor
ReqX(r) == Float(IF r.kind = "SnowDrop" THEN r.x ELSE r.start_x)
ReqY(r) == Float(IF r.kind = "SnowDrop" THEN r.y ELSE r.start_y)
ReqDx(r) == Float(IF r.kind = "SnowDrop" THEN r.delta_x ELSE r.dx)
ReqDy(r) == Float(IF r.kind = "SnowDrop" THEN r.delta_y ELSE r.dy)

\* the delta after a tick of the generic rule, given the position after the
\* tick, the delta before it and the far edge
Bounced(pos, delta, extent) ==
    IF (Lt(pos, Zero) /\ Lt(delta, Zero)) \/ (Gt(pos, extent) /\ Gt(delta, Zero))
    THEN Neg(delta) ELSE delta

\* C1: on every tick of a wheel or ball the position advances by the delta,
\* and a delta is negated exactly when the new position is past an edge and
\* the delta points outward; out of bounds but moving inward it is kept.  At
\* x = 0 with delta_x = -2 px the tick leaves delta_x = +2 px, and a positive
\* delta_x is never negated by a tick that ends at x <= 0.
BounceEdgeTriggered ==
    [][IsTick =>
        \A i \in 1..Len(shapeList) : Generic(shapeList[i]) =>
            /\ shapeList'[i].x = Add(shapeList[i].x, shapeList[i].delta_x)
            /\ shapeList'[i].y = Add(shapeList[i].y, shapeList[i].delta_y)
            /\ shapeList'[i].delta_x =
                  Bounced(shapeList'[i].x, shapeList[i].delta_x, Px(SCREEN_WIDTH))
            /\ shapeList'[i].delta_y =
                  Bounced(shapeList'[i].y, shapeList[i].delta_y, Px(SCREEN_HEIGHT))
            /\ (shapeList[i].x = Px(0) /\ shapeList[i].delta_x = Px(-2))
                  => shapeList'[i].delta_x = Px(2)
            /\ (Gt(shapeList[i].delta_x, Zero) /\ Le(shapeList'[i].x, Zero))
                  => shapeList'[i].delta_x = shapeList[i].delta_x
    ]_vars

\* a ball built at x = 0 with delta_x = -2 px, two ticks later: back at
\* x = 0, still moving right
BounceEdgeTriggeredWitness ==
    /\ phase = "running" /\ tick = 2
    /\ request.kind = "BouncingBall"
    /\ request.start_x = 0 /\ request.dx = -20
    /\ shapeList[1].x = Px(0) /\ shapeList[1].delta_x = Px(2)

\* C2: for a snow drop with non-zero delta_x the counter is the tick number
\* modulo 5, the sign of delta_x flips on ticks 5, 10, 15, ... and on no
\* other tick, and its magnitude never changes.
SnowFlipsEveryFifthTick ==
    [][IsTick =>
        \A i \in 1..Len(shapeList) :
            (shapeList[i].kind = "SnowDrop" /\ shapeList[i].delta_x # Zero) =>
                /\ shapeList'[i].count = tick' % 5
                /\ shapeList'[i].delta_x =
                      IF tick' % 5 = 0 THEN Neg(shapeList[i].delta_x)
                                       ELSE shapeList[i].delta_x
                /\ Abs(shapeList'[i].delta_x) = Abs(shapeList[i].delta_x)
    ]_vars

\* a drifting snow drop after its second flip
SnowFlipsEveryFifthTickWitness ==
    /\ phase = "running" /\ tick = 10
    /\ shapeList[1].kind = "SnowDrop"
    /\ shapeList[1].delta_x # Zero
    /\ shapeList[1].delta_x = ReqDx(request)
    /\ shapeList[1].count = 0

\* C3: a snow drop's tick sets y to exactly SCREEN_HEIGHT + 10 when y minus
\* delta_y, as the program computes it, is below 0 and to y minus delta_y
\* otherwise, and never changes delta_y.
SnowWraps ==
    [][IsTick =>
        \A i \in 1..Len(shapeList) : shapeList[i].kind = "SnowDrop" =>
            /\ shapeList'[i].y =
                  IF Lt(Sub(shapeList[i].y, shapeList[i].delta_y), Zero)
                  THEN Px(SCREEN_HEIGHT + 10)
                  ELSE Sub(shapeList[i].y, shapeList[i].delta_y)
            /\ shapeList'[i].delta_y = shapeList[i].delta_y
    ]_vars

\* the snow drop built at y = 3 with delta_y = 0.6, wrapped to the top by
\* its fifth tick
SnowWrapsWitness ==
    /\ phase = "running" /\ tick = 5
    /\ request.kind = "SnowDrop"
    /\ request.y = 30 /\ request.delta_y = 6
    /\ shapeList[1].y = Px(SCREEN_HEIGHT + 10)

ZeroDeltas(r) == ReqDx(r) = Zero /\ ReqDy(r) = Zero

\* C4 as stated: with zero deltas every entity, from every start position,
\* is where it started after any number of ticks.
ZeroDeltaKeepsPosition ==
    (phase = "running" /\ ZeroDeltas(request)) =>
        /\ shapeList[1].x = ReqX(request)
        /\ shapeList[1].y = ReqY(request)

\* C4 amended: with zero deltas a wheel or ball from every start position,
\* and a snow drop that starts with y >= 0, is where it started after any
\* number of ticks; a snow drop that starts with y < 0 keeps x and is at
\* y = SCREEN_HEIGHT + 10 from its first tick on.
ZeroDeltaKeepsPositionUnlessWrapped ==
    (phase = "running" /\ ZeroDeltas(request)) =>
        /\ shapeList[1].x = ReqX(request)
        /\ (request.kind = "SnowDrop" /\ Lt(ReqY(request), Zero) /\ tick >= 1)
              => shapeList[1].y = Px(SCREEN_HEIGHT + 10)
        /\ (request.kind # "SnowDrop" \/ Le(Zero, ReqY(request)))
              => shapeList[1].y = ReqY(request)

\* a motionless snow drop on the bottom edge, three ticks on
ZeroDeltaWitness ==
    /\ phase = "running" /\ tick = 3
    /\ request.kind = "SnowDrop"
    /\ ZeroDeltas(request)
    /\ ReqY(request) = Zero
    /\ shapeList[1].y = Zero

\* C5: every on_update calls move, and every on_draw calls draw, exactly
\* once on every entity in list order, which is the order of appending; and
\* neither callback changes which entities the list holds or their order.
CallsFollowInsertionOrder ==
    [][/\ lastCallback' \in {"on_update", "on_draw"} =>
            /\ calls' = [k \in 1..Len(shapeList') |-> k]
            /\ \A k \in 1..Len(shapeList') : shapeList'[k].id = k
       /\ phase = "running" =>
            /\ Len(shapeList') = Len(shapeList)
            /\ \A k \in 1..Len(shapeList) :
                  /\ shapeList'[k].id = shapeList[k].id
                  /\ shapeList'[k].kind = shapeList[k].kind
    ]_vars

\* a frame drawn after two ticks in a row, in a scene of two loop passes
CallsFollowInsertionOrderWitness ==
    /\ lastCallback = "on_draw" /\ tick = 2
    /\ numSnowDrops = 2
    /\ Len(calls) = 14
    /\ calls[1] = 1 /\ calls[14] = 14
    /\ shapeList[2].shape_list.center_x = Px(2)

CountKind(kind) == Cardinality({i \in 1..Len(shapeList) : shapeList[i].kind = kind})

\* C6: after setup the list holds exactly numSnowDrops snow drops, exactly
\* four wheels and exactly two bouncing balls.
FixedComposition ==
    phase = "running" =>
        /\ CountKind("SnowDrop") = numSnowDrops
        /\ CountKind("Wheel") = 4
        /\ CountKind("BouncingBall") = 2

\* C7: a wheel built with S >= 1 spokes has the batch line_0, outer_disc_0,
\* ..., line_(S-1), outer_disc_(S-1), center_disc: 2S+1 primitives, the n-th
\* line and outer disc in colour (red, green, blue)[n mod 3], the black
\* centre disc last.
WheelBatchLayout ==
    (phase = "running" /\ request.kind = "Wheel" /\ request.spokes >= 1) =>
        LET S == request.spokes
            shapes == shapeList[1].shape_list.shapes
        IN /\ Len(shapes) = 2 * S + 1
           /\ (S = 3 => Len(shapes) = 7)
           /\ \A n \in 0..(S - 1) :
                 /\ shapes[2 * n + 1].shape = "line"
                 /\ shapes[2 * n + 1].to.step = n
                 /\ shapes[2 * n + 1].color = <<RED, GREEN, BLUE>>[(n % 3) + 1]
                 /\ shapes[2 * n + 2].shape = "ellipse"
                 /\ shapes[2 * n + 2].center.step = n
                 /\ shapes[2 * n + 2].center.dist = request.radius
                 /\ shapes[2 * n + 2].color = <<RED, GREEN, BLUE>>[(n % 3) + 1]
           /\ shapes[2 * S + 1].shape = "ellipse"
           /\ shapes[2 * S + 1].center = Origin
           /\ shapes[2 * S + 1].color = BLACK
           /\ Cardinality({k \in 1..Len(shapes) : shapes[k].shape = "line"}) = S

\* a four-spoke wheel: the fourth spoke is red again
WheelBatchLayoutWitness ==
    /\ phase = "running"
    /\ request.kind = "Wheel" /\ request.spokes = 4
    /\ Len(shapeList[1].shape_list.shapes) = 9
    /\ shapeList[1].shape_list.shapes[7].color = RED

\* C8: a wheel constructor called with a spoke count of zero or less raises
\* and no wheel is produced.
InvalidSpokesRejected ==
    (request.kind = "Wheel" /\ request.spokes <= 0 /\ phase # "new") =>
        /\ phase = "error"
        /\ shapeList = <<>>

\* the place of list position i within its loop pass: 1 the snow drop,
\* 2..5 the wheels, 6 and 7 the balls
Slot(i) == ((i - 1) % 7) + 1

\* the deltas setup gives the wheel of a slot
WheelDx(slot) == IF slot = 2 THEN Px(1) ELSE IF slot = 3 THEN Px(-1) ELSE Px(0)
WheelDy(slot) == IF slot = 4 THEN Px(-2) ELSE IF slot = 5 THEN Px(2) ELSE Px(0)

\* C9 as stated: in the default scene every wheel keeps the delta_x and
\* delta_y it was built with, after any number of ticks.
WheelsNeverBounce ==
    \A i \in 1..Len(shapeList) : shapeList[i].kind = "Wheel" =>
        /\ shapeList[i].delta_x = WheelDx(Slot(i))
        /\ shapeList[i].delta_y = WheelDy(Slot(i))

\* C9 amended: the magnitudes of a wheel's deltas never change; the left and
\* right wheels keep the delta_x they were built with for the first 800
\* ticks and have it negated on tick 801, the top and bottom wheels keep
\* their delta_y for the first 280 ticks and have it negated on tick 281.
WheelsBounceAtFarEdge ==
    \A i \in 1..Len(shapeList) : shapeList[i].kind = "Wheel" =>
        /\ Abs(shapeList[i].delta_x) = Abs(WheelDx(Slot(i)))
        /\ Abs(shapeList[i].delta_y) = Abs(WheelDy(Slot(i)))
        /\ tick <= 280 => shapeList[i].delta_y = WheelDy(Slot(i))
        /\ tick = 281 => shapeList[i].delta_y = Neg(WheelDy(Slot(i)))
        /\ tick <= 800 => shapeList[i].delta_x = WheelDx(Slot(i))
        /\ tick = 801 => shapeList[i].delta_x = Neg(WheelDx(Slot(i)))

\* tick 801: the left wheel is one pixel past the right edge, turned round
WheelsBounceAtFarEdgeWitness ==
    /\ phase = "running" /\ tick = 801
    /\ Len(shapeList) >= 7
    /\ shapeList[2].kind = "Wheel"
    /\ shapeList[2].x = Px(SCREEN_WIDTH + 1)
    /\ shapeList[2].delta_x = Px(-1)

\* C10: a wheel or ball that starts on the screen is never more than one
\* step outside it, and the magnitudes of its deltas never change; the
\* default balls stay within x in [-4, 804] and y in [-4, 564] pixels.
BoundedOvershoot ==
    (/\ phase = "running" /\ request.kind # "SnowDrop"
     /\ Le(Zero, ReqX(request)) /\ Le(ReqX(request), Px(SCREEN_WIDTH))
     /\ Le(Zero, ReqY(request)) /\ Le(ReqY(request), Px(SCREEN_HEIGHT))) =>
        /\ Abs(shapeList[1].delta_x) = Abs(ReqDx(request))
        /\ Abs(shapeList[1].delta_y) = Abs(ReqDy(request))
        /\ Le(Neg(Abs(ReqDx(request))), shapeList[1].x)
        /\ Le(shapeList[1].x, Add(Px(SCREEN_WIDTH), Abs(ReqDx(request))))
        /\ Le(Neg(Abs(ReqDy(request))), shapeList[1].y)
        /\ Le(shapeList[1].y, Add(Px(SCREEN_HEIGHT), Abs(ReqDy(request))))
        /\ request \in DefaultBallRequests =>
              /\ Le(Px(-4), shapeList[1].x) /\ Le(shapeList[1].x, Px(804))
              /\ Le(Px(-4), shapeList[1].y) /\ Le(shapeList[1].y, Px(564))

\* the second default ball one step past the left edge, having already
\* bounced off the top
BoundedOvershootWitness ==
    /\ phase = "running"
    /\ request \in DefaultBallRequests
    /\ shapeList[1].x = Px(-4)
    /\ shapeList[1].delta_x = Px(4)
    /\ shapeList[1].delta_y = Px(-4)

====
